---------------------------- MODULE Spec2Model ----------------------------
(***************************************************************************)
(* Model of swirlconf: the Swirl configuration object (region table,       *)
(* radar site table, liveness evaluation of a region's radars from the     *)
(* volume files on disk, barycentre and distance ranking) and the two      *)
(* message helpers decode_message and dispatch_message.                    *)
(*                                                                         *)
(* Instants are whole seconds since an epoch; a calendar date is the       *)
(* instant divided by 86400.  Coordinates are integers on a small grid;    *)
(* distances are compared through their squares scaled by the square of    *)
(* the number of points, which orders them exactly as the square roots     *)
(* of core.py:94 do (floating-point rounding is not modelled).             *)
(***************************************************************************)
EXTENDS Integers, Sequences, FiniteSets, TLC

VARIABLES
    regions,          \* Swirl.regions: the JSON object, as a sequence of <<name, members>>
    rid_regions,      \* Swirl.rid_regions: radar id -> region name
    warned,           \* the radar ids warnings.warn was called for, in order
    radar_site_info,  \* Swirl.radar_site_info: rows [id, site_lat, site_lon]
    vols,             \* the directories <vols_path>/<rid>/<datestr> on disk
    ret,              \* the last synchronous call: its arguments and its outcome
    tasks,            \* the dispatch_message coroutines started, each with its frame
    listening         \* the ports a peer is accepting connections on

vars == <<regions, rid_regions, warned, radar_site_info, vols, ret, tasks, listening>>

-----------------------------------------------------------------------------
(* Bounds of the model and the small input sets.                           *)

MaxFiles == 2        \* files per date directory
MaxN == 3            \* length of the list given to compute_baricentre
MaxRegions == 2      \* regions in regions.json
MaxMembers == 2      \* radars listed by one region of regions.json
MaxDispatch == 2     \* dispatch_message calls in one run

Radars == {1, 2, 3}
UnknownRid == Cardinality(Radars) + 1   \* a radar id absent from radar_site_list.csv
RegionNames == {"A", "B", "C"}
RefTimes == {90000}
Ages == {599, 600, 601}
Downtimes == {600}

NoStamp == 0 - 1     \* the file name holds no [0-9]{8}_[0-9]{6} token
BadStamp == 0 - 2    \* it holds one that is no calendar instant (strptime fails)

Date(t) == t \div 86400
Dates == {Date(t) : t \in RefTimes}

Range(s) == {s[i] : i \in 1..Len(s)}

\* "no call yet / the result was consumed"
NoCall == [op |-> "none"]


-----------------------------------------------------------------------------
(* The volume files on disk.  A file is its path's place in the sorted     *)
(* listing (key), the capture instant its name embeds (stamp) and whether  *)
(* its name holds a dot, which is what the pattern "*.*" asks for.  The    *)
(* stamped names of one radar share their prefix, so they sort by stamp;   *)
(* "<rid>_99999999_999999.vol" and "<rid>_latest.vol" sort after them and  *)
(* the lock file "~<stamp>" (no extension) after those.                    *)

Stamps == {t - a : t \in RefTimes, a \in Ages}

FileUniverse ==
    {[key |-> s, stamp |-> s, dot |-> TRUE] : s \in Stamps}
    \cup {[key |-> 200001, stamp |-> BadStamp, dot |-> TRUE],
          [key |-> 200002, stamp |-> NoStamp, dot |-> TRUE]}
    \cup {[key |-> 200003, stamp |-> t - 1, dot |-> FALSE] : t \in RefTimes}

NoDir == [exists |-> FALSE, files |-> {}]

\* glob.glob(os.path.join(path, "*.*"))
Glob(dir) == {f \in dir.files : f.dot}

\* sorted(...): ascending by path
RECURSIVE Sorted(_)
Sorted(S) ==
    IF S = {} THEN <<>>
    ELSE LET lo == CHOOSE f \in S : \A g \in S : f.key <= g.key
         IN  <<lo>> \o Sorted(S \ {lo})

\* flist[-1]
Last(s) == s[Len(s)]

\* get_time as it would be with a default instead of the exception
get_time_lenient(f) ==
    IF f.stamp \in {NoStamp, BadStamp} THEN [exc |-> "", t |-> 0]
    ELSE [exc |-> "", t |-> f.stamp]

\* get_time: re.findall(...)[-1] raises IndexError when nothing matches,
\* strptime raises ValueError when the digits are no instant
get_time(f) ==
    IF f.stamp = NoStamp THEN [exc |-> "IndexError", t |-> 0]
    ELSE IF f.stamp = BadStamp THEN [exc |-> "ValueError", t |-> 0]
    ELSE [exc |-> "", t |-> f.stamp]

\* the comparison as it would be with >=
IsDownInclusive(delta, max_radar_downtime) == delta >= max_radar_downtime

\* delta.total_seconds() > max_radar_downtime
IsDown(delta, max_radar_downtime) == delta > max_radar_downtime

\* the loop body as it would be with os.listdir on a missing directory
CheckRadarStrict(dir, radar_dtime, max_radar_downtime) ==
    IF ~dir.exists THEN "FileNotFoundError"
    ELSE LET flist == Sorted(Glob(dir))
         IN  IF Len(flist) = 0 THEN "nofile"
             ELSE LET rtime == get_time(Last(flist))
                  IN  IF rtime.exc # "" THEN rtime.exc
                      ELSE IF IsDown(radar_dtime - rtime.t, max_radar_downtime)
                           THEN "down"
                           ELSE "valid"

\* One pass of the loop body for radar directory dir: "nodir" and "nofile"
\* are the two continue branches, "down" the print branch, "valid" the
\* append branch; anything else is the exception that leaves the loop.
CheckRadar(dir, radar_dtime, max_radar_downtime) ==
    IF ~dir.exists THEN "nodir"
    ELSE LET flist == Sorted(Glob(dir))
         IN  IF Len(flist) = 0 THEN "nofile"
             ELSE LET rtime == get_time(Last(flist))
                  IN  IF rtime.exc # "" THEN rtime.exc
                      ELSE IF IsDown(radar_dtime - rtime.t, max_radar_downtime)
                           THEN "down"
                           ELSE "valid"

\* the append as it would be with insert(0, r)
PrependValid(valid_rids, r) == <<r>> \o valid_rids

\* valid_rids.append(r)
AppendValid(valid_rids, r) == Append(valid_rids, r)

\* for r in regions_rids: ...
RECURSIVE ScanRids(_, _, _, _, _)
ScanRids(rs, fs, radar_dtime, max_radar_downtime, valid_rids) ==
    IF rs = <<>> THEN [exc |-> "", valid |-> valid_rids]
    ELSE LET r == Head(rs)
             c == CheckRadar(fs[r][Date(radar_dtime)], radar_dtime, max_radar_downtime)
         IN  IF c \in {"nodir", "nofile", "down"}
             THEN ScanRids(Tail(rs), fs, radar_dtime, max_radar_downtime, valid_rids)
             ELSE IF c = "valid"
             THEN ScanRids(Tail(rs), fs, radar_dtime, max_radar_downtime,
                           AppendValid(valid_rids, r))
             ELSE [exc |-> c, valid |-> valid_rids]

\* self.regions[region_name]
HasRegion(tab, name) == \E i \in 1..Len(tab) : tab[i][1] = name
RegionRids(tab, name) == tab[CHOOSE i \in 1..Len(tab) : tab[i][1] = name][2]

Raise(exc, about) == [kind |-> "raise", exc |-> exc, about |-> about, value |-> <<>>]
Return(v) == [kind |-> "return", exc |-> "", about |-> "", value |-> v]

\* the end of the call as it would be without the emptiness test
FinishScanAlways(region_name, valid_rids) == Return(valid_rids)

\* if len(valid_rids) == 0: raise ValueError(... region_name ...); return valid_rids
FinishScan(region_name, valid_rids) ==
    IF Len(valid_rids) = 0 THEN Raise("ValueError", region_name)
    ELSE Return(valid_rids)

\* Swirl.update_rids_in_region
update_rids_in_region(tab, fs, region_name, radar_dtime, max_radar_downtime) ==
    IF ~HasRegion(tab, region_name) THEN Raise("KeyError", region_name)
    ELSE LET scan == ScanRids(RegionRids(tab, region_name), fs, radar_dtime,
                              max_radar_downtime, <<>>)
         IN  IF scan.exc # "" THEN Raise(scan.exc, "get_time")
             ELSE FinishScan(region_name, scan.valid)

-----------------------------------------------------------------------------
(* Geometry: the radar site table, the barycentre and the ranking.         *)

Lats == 0..2
Lons == 0..1

\* radar_site_info.loc[radar_site_info.id == rid].site_lat.values[0]:
\* the first matching row; IndexError when no row matches
HasSite(info, rid) == \E i \in 1..Len(info) : info[i].id = rid
SiteRow(info, rid) ==
    info[CHOOSE i \in 1..Len(info) :
            /\ info[i].id = rid
            /\ \A j \in 1..(i - 1) : info[j].id # rid]
get_lat(info, rid) == SiteRow(info, rid).site_lat
get_lon(info, rid) == SiteRow(info, rid).site_lon

RECURSIVE SumSeq(_)
SumSeq(s) == IF s = <<>> THEN 0 ELSE Head(s) + SumSeq(Tail(s))

\* latitudes[idx] = self.get_lat(rid); longitudes[idx] = self.get_lon(rid)
Latitudes(info, region_rids) ==
    [idx \in 1..Len(region_rids) |-> get_lat(info, region_rids[idx])]
Longitudes(info, region_rids) ==
    [idx \in 1..Len(region_rids) |-> get_lon(info, region_rids[idx])]

\* cartesian_distance, squared and scaled by nl^2:
\* (nl*lat - sum(lat))^2 + (nl*lon - sum(lon))^2
CartesianDistance(info, region_rids) ==
    LET nl == Len(region_rids)
        latitudes == Latitudes(info, region_rids)
        longitudes == Longitudes(info, region_rids)
        slat == SumSeq(latitudes)
        slon == SumSeq(longitudes)
    IN  [idx \in 1..nl |->
            (nl * latitudes[idx] - slat) * (nl * latitudes[idx] - slat)
            + (nl * longitudes[idx] - slon) * (nl * longitudes[idx] - slon)]

Permutations1(n) ==
    {p \in [1..n -> 1..n] : \A i, j \in 1..n : i # j => p[i] # p[j]}

\* the ranking as it would be without the sort
ArgsortNone(d) == {[i \in 1..Len(d) |-> i]}

\* np.argsort(d) with the default kind ("quicksort"): an index array that
\* sorts d.  The default kind is not a stable sort (only kind="stable" is),
\* and which of the sorting index arrays comes out depends on the build
\* (scalar introsort, AVX2/AVX-512 sorting networks) and on the length.
\* The code sorts rounded floats, and two exactly equal distances may round
\* apart in either direction (two radars at latitudes 0.1 and 0.2 and the
\* same longitude get 0.05000000000000002 and 0.04999999999999999).  So
\* every index array that sorts the exact distances d is an outcome.
Argsort(d) ==
    {p \in Permutations1(Len(d)) :
        \A i, j \in 1..Len(d) : i < j => d[p[i]] <= d[p[j]]}

\* Swirl.compute_baricentre: the outcomes of one call.  The barycentre's
\* coordinates are the fractions <<sum, nl>>.
compute_baricentre(info, region_rids) ==
    LET nl == Len(region_rids) IN
    IF nl < 2 THEN {Raise("ValueError", "Not a multi-Doppler region")}
    ELSE IF \E idx \in 1..nl : ~HasSite(info, region_rids[idx])
    THEN {Raise("IndexError", "get_lat")}
    ELSE {Return([bar_lon |-> <<SumSeq(Longitudes(info, region_rids)), nl>>,
                  bar_lat |-> <<SumSeq(Latitudes(info, region_rids)), nl>>,
                  rids |-> [i \in 1..nl |-> region_rids[p[i]]]]) :
            p \in Argsort(CartesianDistance(info, region_rids))}

-----------------------------------------------------------------------------
(* The region table.                                                       *)

\* for k, v in self.regions.items(): for n in v:  -- the visits, in order
RECURSIVE RegionVisits(_)
RegionVisits(tab) ==
    IF tab = <<>> THEN <<>>
    ELSE [i \in 1..Len(Head(tab)[2]) |-> <<Head(tab)[2][i], Head(tab)[1]>>]
         \o RegionVisits(Tail(tab))

\* the assignment as it would be if the first region listing a radar won
AssignRegionFirst(m, n, k) ==
    IF n \in DOMAIN m THEN m
    ELSE [x \in (DOMAIN m) \cup {n} |-> IF x = n THEN k ELSE m[x]]

\* self.rid_regions[n] = k
AssignRegion(m, n, k) ==
    [x \in (DOMAIN m) \cup {n} |-> IF x = n THEN k ELSE m[x]]

\* the loop of set_regions over the visits: the map and the warnings issued
RECURSIVE LoadRegions(_, _, _)
LoadRegions(visits, m, w) ==
    IF visits = <<>> THEN [rid_regions |-> m, warned |-> w]
    ELSE LET n == Head(visits)[1]
             k == Head(visits)[2]
         IN  LoadRegions(Tail(visits), AssignRegion(m, n, k),
                         IF n \in DOMAIN m THEN Append(w, n) ELSE w)

EmptyMap == [x \in {} |-> ""]

\* Swirl.set_regions
set_regions(tab) ==
    IF Len(tab) = 0
    THEN [out |-> Raise("ValueError", "regions.json"), load |-> FALSE,
          rid_regions |-> EmptyMap, warned |-> <<>>]
    ELSE LET l == LoadRegions(RegionVisits(tab), EmptyMap, <<>>)
         IN  [out |-> Return(<<>>), load |-> TRUE,
              rid_regions |-> l.rid_regions, warned |-> l.warned]

-----------------------------------------------------------------------------
(* decode_message.  A message on the wire is either bytes that are no      *)
(* pickle or the pickle of a dict, which holds the dict's items in order.  *)

\* the key list as it would be in another order
RequiredKeysReversed == <<"uid", "when", "where", "what", "who">>

RequiredKeys == <<"who", "what", "where", "when", "uid">>
WireKeys == <<"who", "what", "where", "when", "uid", "extra">>
Values == {0, 1}

\* pickle.loads of a dict pickle: the items are set one after the other
RECURSIVE Loads(_, _)
Loads(items, data) ==
    IF items = <<>> THEN data
    ELSE Loads(Tail(items),
               [x \in (DOMAIN data) \cup {Head(items)[1]} |->
                   IF x = Head(items)[1] THEN Head(items)[2] ELSE data[x]])

\* for key in [...]: try: _ = data[key] except KeyError: raise KeyError(key)
RECURSIVE CheckKeys(_, _)
CheckKeys(keys, data) ==
    IF keys = <<>> THEN Return(data)
    ELSE IF Head(keys) \notin DOMAIN data THEN Raise("KeyError", Head(keys))
    ELSE CheckKeys(Tail(keys), data)

\* decode_message
decode_message(message) ==
    IF ~message.pickle THEN Raise("UnpicklingError", "pickle.loads")
    ELSE CheckKeys(RequiredKeys, Loads(message.items, EmptyMap))

-----------------------------------------------------------------------------
(* dispatch_message.  The coroutine suspends once, at                      *)
(* await asyncio.open_connection; what follows the await runs in one step. *)
(* StreamWriter.write sends what the socket takes at once and buffers the  *)
(* rest; close() lets the event loop flush the buffer, then closes.        *)

Ports == {9921, 9931}
Messages == {<<1, 2>>, <<3>>}
ConnectOutcomes == {"accepted", "refused", "oserror"}
SendNows == 0..2     \* bytes the socket takes at once, up to the longest message

\* the calls as they would be with the close ahead of the write
WriterCallsCloseFirst(message) ==
    <<[call |-> "close", data |-> <<>>], [call |-> "write", data |-> message]>>

\* The transport calls made once the connection is open:
\* writer.write(message); writer.close()
WriterCalls(message) ==
    <<[call |-> "write", data |-> message], [call |-> "close", data |-> <<>>]>>

\* A transport: its port, the bytes the peer has, the bytes still buffered
NewTransport(port) ==
    [port |-> port, sent |-> <<>>, buf |-> <<>>, closing |-> FALSE, closed |-> FALSE]

\* The effect of the calls on the transport; sendnow is how many bytes the
\* socket takes at once when a write finds the buffer empty.  A write on a
\* closing transport is dropped.
RECURSIVE ApplyCalls(_, _, _)
ApplyCalls(calls, tr, sendnow) ==
    IF calls = <<>> THEN tr
    ELSE LET c == Head(calls)
             k == IF tr.buf = <<>> /\ sendnow <= Len(c.data) THEN sendnow ELSE 0
             next ==
                 IF c.call = "close" THEN [tr EXCEPT !.closing = TRUE]
                 ELSE IF tr.closing THEN tr
                 ELSE [tr EXCEPT !.sent = @ \o SubSeq(c.data, 1, k),
                                 !.buf = @ \o SubSeq(c.data, k + 1, Len(c.data))]
         IN  ApplyCalls(Tail(calls), next, sendnow)

\* except ConnectionRefusedError: the one exception the handler catches
Caught(outcome) == outcome = "refused"

\* What the connection attempt can end in, given the peer
PossibleOutcomes(port, peers) ==
    (IF port \in peers THEN {"accepted"} ELSE {"refused"}) \cup {"oserror"}

-----------------------------------------------------------------------------
(* Input sets.                                                             *)

SeqsUpTo(S, n) == UNION {[1..k -> S] : k \in 0..n}

\* regions.json for the liveness runs: one region, in several member orders
LiveTables ==
    {<< <<"A", m>> >> : m \in {<<>>, <<2>>, <<1, 2, 3>>, <<3, 1, 2>>, <<2, 3, 1>>}}

\* radar_site_list.csv for the liveness runs
LiveSites ==
    <<[id |-> 1, site_lat |-> 0, site_lon |-> 0],
      [id |-> 2, site_lat |-> 0, site_lon |-> 1],
      [id |-> 3, site_lat |-> 2, site_lon |-> 1]>>

\* radar_site_list.csv for the geometry runs: every placing of the radars
SiteTables ==
    {[i \in 1..Cardinality(Radars) |-> [id |-> i, site_lat |-> c[i][1], site_lon |-> c[i][2]]] :
        c \in [1..Cardinality(Radars) -> Lats \X Lons]}

RidLists == SeqsUpTo(Radars \cup {UnknownRid}, MaxN)

\* regions.json for the loading runs: up to MaxRegions distinct names, each
\* with up to MaxMembers radar ids (a radar id may repeat)
TableRids == {1, 2}
RegionTables ==
    {t \in SeqsUpTo(RegionNames \X SeqsUpTo(TableRids, MaxMembers), MaxRegions) :
        \A i, j \in 1..Len(t) : i # j => t[i][1] # t[j][1]}

\* the wire messages: every choice of present keys and of their values
Absent == 0 - 1
RECURSIVE ItemsOf(_, _)
ItemsOf(keys, f) ==
    IF keys = <<>> THEN <<>>
    ELSE (IF f[Head(keys)] = Absent THEN <<>> ELSE << <<Head(keys), f[Head(keys)]>> >>)
         \o ItemsOf(Tail(keys), f)
WireMessages ==
    {[pickle |-> TRUE, items |-> ItemsOf(WireKeys, f)] :
        f \in [Range(WireKeys) -> Values \cup {Absent}]}
    \cup {[pickle |-> FALSE, items |-> <<>>]}

-----------------------------------------------------------------------------
(* The state after construction and the operations.                        *)

DefaultTable == << <<"A", <<1, 2, 3>> >> >>

NoDisk == [r \in Radars |-> [d \in Dates |-> NoDir]]

InitConfig(tab, info) ==
    /\ regions = tab
    /\ rid_regions = set_regions(tab).rid_regions
    /\ warned = set_regions(tab).warned
    /\ radar_site_info = info
    /\ vols = NoDisk
    /\ ret = NoCall
    /\ tasks = <<>>
    /\ listening = {}

\* The radar ingest creates today's directory of radar r
MkDir(r, d) ==
    /\ ~vols[r][d].exists
    /\ vols' = [vols EXCEPT ![r][d] = [exists |-> TRUE, files |-> {}]]
    /\ ret' = NoCall
    /\ UNCHANGED <<regions, rid_regions, warned, radar_site_info, tasks, listening>>

\* The radar ingest writes file f into it
WriteFile(r, d, f) ==
    /\ vols[r][d].exists
    /\ f \notin vols[r][d].files
    /\ Cardinality(vols[r][d].files) < MaxFiles
    /\ vols' = [vols EXCEPT ![r][d].files = @ \cup {f}]
    /\ ret' = NoCall
    /\ UNCHANGED <<regions, rid_regions, warned, radar_site_info, tasks, listening>>

UpdateRidsInRegion(region_name, radar_dtime, max_radar_downtime) ==
    /\ ret' = [op |-> "update_rids_in_region", region |-> region_name,
               dtime |-> radar_dtime, maxdown |-> max_radar_downtime,
               out |-> update_rids_in_region(regions, vols, region_name,
                                             radar_dtime, max_radar_downtime)]
    /\ UNCHANGED <<regions, rid_regions, warned, radar_site_info, vols, tasks, listening>>

ComputeBaricentre(region_rids) ==
    /\ ret = NoCall
    /\ \E o \in compute_baricentre(radar_site_info, region_rids) :
          ret' = [op |-> "compute_baricentre", rids |-> region_rids, out |-> o]
    /\ UNCHANGED <<regions, rid_regions, warned, radar_site_info, vols, tasks, listening>>

\* set_regions: self.regions is assigned before the emptiness test, the map
\* only when the table is not empty
SetRegions(tab) ==
    /\ ret = NoCall
    /\ LET l == set_regions(tab) IN
          /\ regions' = tab
          /\ rid_regions' = IF l.load THEN l.rid_regions ELSE rid_regions
          /\ warned' = IF l.load THEN l.warned ELSE warned
          /\ ret' = [op |-> "set_regions", tab |-> tab, out |-> l.out]
    /\ UNCHANGED <<radar_site_info, vols, tasks, listening>>

DecodeMessage(message) ==
    /\ ret = NoCall
    /\ ret' = [op |-> "decode_message", message |-> message, out |-> decode_message(message)]
    /\ UNCHANGED <<regions, rid_regions, warned, radar_site_info, vols, tasks, listening>>

\* The caller takes the result of the last call
Consume ==
    /\ ret # NoCall
    /\ ret' = NoCall
    /\ UNCHANGED <<regions, rid_regions, warned, radar_site_info, vols, tasks, listening>>

\* A peer starts or stops accepting connections on port p
Listen(p) ==
    /\ p \notin listening
    /\ listening' = listening \cup {p}
    /\ UNCHANGED <<regions, rid_regions, warned, radar_site_info, vols, ret, tasks>>

Unlisten(p) ==
    /\ p \in listening
    /\ listening' = listening \ {p}
    /\ UNCHANGED <<regions, rid_regions, warned, radar_site_info, vols, ret, tasks>>

\* dispatch_message up to its await
DispatchStart(message, port) ==
    /\ Len(tasks) < MaxDispatch
    /\ tasks' = Append(tasks, [message |-> message, port |-> port, pc |-> "connecting",
                               outcome |-> "pending",
                               calls |-> <<[call |-> "open_connection", data |-> <<>>]>>,
                               tr |-> NewTransport(port)])
    /\ UNCHANGED <<regions, rid_regions, warned, radar_site_info, vols, ret, listening>>

\* dispatch_message from its await to its end
ConnectDone(i, outcome, sendnow) ==
    /\ i \in 1..Len(tasks)
    /\ tasks[i].pc = "connecting"
    /\ outcome \in PossibleOutcomes(tasks[i].port, listening)
    /\ sendnow <= Len(tasks[i].message)
    /\ tasks' =
         [tasks EXCEPT ![i] =
            IF outcome = "accepted"
            THEN [@ EXCEPT !.pc = "returned", !.outcome = outcome,
                           !.calls = @ \o WriterCalls(tasks[i].message),
                           !.tr = ApplyCalls(WriterCalls(tasks[i].message), @, sendnow)]
            ELSE IF Caught(outcome)
            THEN [@ EXCEPT !.pc = "returned", !.outcome = outcome]
            ELSE [@ EXCEPT !.pc = "raised", !.outcome = outcome]]
    /\ UNCHANGED <<regions, rid_regions, warned, radar_site_info, vols, ret, listening>>

\* The event loop flushes a closing transport and closes its socket
LoopFlush(i) ==
    /\ i \in 1..Len(tasks)
    /\ tasks[i].tr.closing
    /\ ~tasks[i].tr.closed
    /\ tasks' = [tasks EXCEPT ![i].tr =
                    [@ EXCEPT !.sent = @ \o tasks[i].tr.buf, !.buf = <<>>, !.closed = TRUE]]
    /\ UNCHANGED <<regions, rid_regions, warned, radar_site_info, vols, ret, listening>>

-----------------------------------------------------------------------------
(* Specifications.  Spec is the whole program.  The operations share no    *)
(* state beyond the configuration read at construction, so each is also    *)
(* given a specification of its own, over its own inputs: SpecLive,        *)
(* SpecGeom, SpecRegions, SpecDecode, SpecDispatch.                        *)

Init == InitConfig(DefaultTable, LiveSites)

NextLive ==
    \/ \E r \in Radars, d \in Dates : MkDir(r, d)
    \/ \E r \in Radars, d \in Dates, f \in FileUniverse : WriteFile(r, d, f)
    \/ \E n \in {"A", "B"}, t \in RefTimes, m \in Downtimes : UpdateRidsInRegion(n, t, m)

NextGeom ==
    \/ \E l \in RidLists : ComputeBaricentre(l)
    \/ Consume

NextRegions ==
    \E t \in RegionTables : SetRegions(t)

NextDecode ==
    \/ \E m \in WireMessages : DecodeMessage(m)
    \/ Consume

NextDispatch ==
    \/ \E p \in Ports : Listen(p)
    \/ \E p \in Ports : Unlisten(p)
    \/ \E m \in Messages, p \in Ports : DispatchStart(m, p)
    \/ \E i \in 1..MaxDispatch, o \in ConnectOutcomes, k \in SendNows : ConnectDone(i, o, k)
    \/ \E i \in 1..MaxDispatch : LoopFlush(i)

Next == NextLive \/ NextGeom \/ NextRegions \/ NextDecode \/ NextDispatch

Spec == Init /\ [][Next]_vars

\* Liveness evaluation against a changing disk
SpecLive == (\E t \in LiveTables : InitConfig(t, LiveSites)) /\ [][NextLive]_vars

\* compute_baricentre over every site table
SpecGeom == (\E s \in SiteTables : InitConfig(DefaultTable, s)) /\ [][NextGeom]_vars

\* Loading regions.json: the object before set_regions has run
InitRegions ==
    /\ regions = <<>>
    /\ rid_regions = EmptyMap
    /\ warned = <<>>
    /\ radar_site_info = LiveSites
    /\ vols = NoDisk
    /\ ret = NoCall
    /\ tasks = <<>>
    /\ listening = {}

SpecRegions == InitRegions /\ [][NextRegions]_vars

SpecDecode == Init /\ [][NextDecode]_vars

SpecDispatch == Init /\ [][NextDispatch]_vars

-----------------------------------------------------------------------------
(* Properties of update_rids_in_region, stated on the disk and the call.   *)

IsUpdate == ret.op = "update_rids_in_region"
KnownRegion == IsUpdate /\ \E i \in 1..Len(regions) : regions[i][1] = ret.region
Members == regions[CHOOSE i \in 1..Len(regions) : regions[i][1] = ret.region][2]
TodayDir(r) == vols[r][ret.dtime \div 86400]
Evidence(r) == {f \in TodayDir(r).files : f.dot}
HasEvidence(r) == TodayDir(r).exists /\ Evidence(r) # {}
LastEvidence(r) == CHOOSE f \in Evidence(r) : \A g \in Evidence(r) : g.key <= f.key
Parsable(r) == LastEvidence(r).stamp \notin {NoStamp, BadStamp}
Delta(r) == ret.dtime - LastEvidence(r).stamp
Live(r) == HasEvidence(r) /\ Parsable(r) /\ Delta(r) <= ret.maxdown
NoParseFailure == \A r \in Range(Members) : HasEvidence(r) => Parsable(r)
Returned == ret.out.kind = "return"
Listed(r) == \E i \in 1..Len(ret.out.value) : ret.out.value[i] = r

\* the scaled squared distance of the i-th radar of list l from l's barycentre
DistIn(l, i) == CartesianDistance(radar_site_info, l)[i]
AscendingDistance(l) == \A i, j \in 1..Len(l) : i < j => DistIn(l, i) <= DistIn(l, j)

C3_StaleBoundary ==
    (KnownRegion /\ NoParseFailure)
        => \A r \in Range(Members) :
              HasEvidence(r) => (~Listed(r) <=> Delta(r) > ret.maxdown)

\* C3 witness: threshold 600; radar 1 last seen 601 s ago is left out,
\* radar 2 (600 s) and radar 3 (599 s) are returned.
C3_Witness ==
    /\ KnownRegion /\ Returned /\ ret.maxdown = 600
    /\ Members = <<1, 2, 3>>
    /\ HasEvidence(1) /\ Parsable(1) /\ Delta(1) = 601 /\ ~Listed(1)
    /\ HasEvidence(2) /\ Parsable(2) /\ Delta(2) = 600 /\ Listed(2)
    /\ HasEvidence(3) /\ Parsable(3) /\ Delta(3) = 599 /\ Listed(3)

\* C4: the call never returns an empty list; when every member radar is
\* excluded (missing directory, no files, down), and when the region has no
\* member, it raises the error that names the region.
C4_NeverEmpty ==
    IsUpdate =>
        /\ Returned => ret.out.value # <<>>
        /\ (KnownRegion /\ NoParseFailure /\ \A r \in Range(Members) : ~Live(r))
              => /\ ret.out.kind = "raise"
                 /\ ret.out.exc = "ValueError"
                 /\ ret.out.about = ret.region

\* C4 witness: a region of three radars, one without directory, one with an
\* empty listing, one down; the call raised the error naming the region.
C4_Witness ==
    /\ KnownRegion /\ Len(Members) = 3
    /\ \E a, b, c \in Range(Members) :
          /\ ~TodayDir(a).exists
          /\ TodayDir(b).exists /\ Evidence(b) = {}
          /\ HasEvidence(c) /\ Parsable(c) /\ Delta(c) > ret.maxdown
    /\ ret.out.kind = "raise" /\ ret.out.about = ret.region

\* C6: if the last sorted evidence file of some member radar holds no
\* parsable timestamp, the call raises the parser's error and returns no
\* list, whatever the other radars' state.
C6_ParseFailureRaises ==
    (KnownRegion /\ ~NoParseFailure)
        => /\ ret.out.kind = "raise"
           /\ ret.out.exc \in {"IndexError", "ValueError"}
           /\ ret.out.about = "get_time"
           /\ ret.out.value = <<>>

\* C6 witness: radar 2's last file has no timestamp while radars 1 and 3 are
\* live; the call raised IndexError.
C6_Witness ==
    /\ KnownRegion /\ Len(Members) = 3
    /\ HasEvidence(2) /\ LastEvidence(2).stamp = NoStamp
    /\ Live(1) /\ Live(3)
    /\ ret.out.kind = "raise" /\ ret.out.exc = "IndexError"

\* C7: a member radar whose date directory is missing or lists no file is
\* left out without failing the call: with every last file parsable, each
\* live member is returned, and the live members come in declared order.
C7_MissingIsSoft ==
    (KnownRegion /\ NoParseFailure)
        => /\ \A r \in Range(Members) : ~HasEvidence(r) => ~Listed(r)
           /\ (\E r \in Range(Members) : Live(r))
                 => /\ Returned
                    /\ \A r \in Range(Members) : Live(r) => Listed(r)
                    /\ \A i, j \in 1..Len(Members) :
                          (i < j /\ Live(Members[i]) /\ Live(Members[j]))
                             => \E a, b \in 1..Len(ret.out.value) :
                                   /\ a < b
                                   /\ ret.out.value[a] = Members[i]
                                   /\ ret.out.value[b] = Members[j]

\* C7 witness: declared order <<3, 1, 2>>; radar 3 has no directory, radar 1
\* an empty listing, radar 2 is live and is the list returned.
C7_Witness ==
    /\ KnownRegion /\ Members = <<3, 1, 2>>
    /\ ~TodayDir(3).exists
    /\ TodayDir(1).exists /\ Evidence(1) = {}
    /\ Live(2)
    /\ Returned /\ ret.out.value = <<2>>

-----------------------------------------------------------------------------
(* Properties of compute_baricentre.                                       *)

IsBaricentre == ret.op = "compute_baricentre"
Ranking == ret.out.value.rids

\* the output lists the input's radars, each as often as the input does
IsPermutationOf(out, in) ==
    /\ Len(out) = Len(in)
    /\ \A r \in Range(in) \cup Range(out) :
          Cardinality({i \in 1..Len(out) : out[i] = r})
             = Cardinality({i \in 1..Len(in) : in[i] = r})

\* the scaled squared distance of radar r from the barycentre of the input
DistOf(r) ==
    CartesianDistance(radar_site_info, ret.rids)[CHOOSE i \in 1..Len(ret.rids) : ret.rids[i] = r]

NonDecreasingDistance ==
    \A i, j \in 1..Len(Ranking) : i < j => DistOf(Ranking[i]) <= DistOf(Ranking[j])

\* two radars at equal distance come out in their input order
TiesKeepInputOrder ==
    \A i, j \in 1..Len(ret.rids) :
        (i < j /\ ret.rids[i] # ret.rids[j] /\ DistOf(ret.rids[i]) = DistOf(ret.rids[j]))
           => \E a, b \in 1..Len(Ranking) :
                 a < b /\ Ranking[a] = ret.rids[i] /\ Ranking[b] = ret.rids[j]

MeanIsBarycentre ==
    /\ ret.out.value.bar_lat =
          <<SumSeq([i \in 1..Len(ret.rids) |-> get_lat(radar_site_info, ret.rids[i])]),
            Len(ret.rids)>>
    /\ ret.out.value.bar_lon =
          <<SumSeq([i \in 1..Len(ret.rids) |-> get_lon(radar_site_info, ret.rids[i])]),
            Len(ret.rids)>>

\* C8, as stated: the ranking is a permutation of the input with
\* non-decreasing distance from the barycentre, and radars at equal distance
\* keep their input order.
C8_StableRanking ==
    (IsBaricentre /\ Returned)
        => IsPermutationOf(Ranking, ret.rids) /\ NonDecreasingDistance /\ TiesKeepInputOrder

\* C8, amended: the ranking is a permutation of the input with non-decreasing
\* distance from the barycentre, the unweighted mean of the inputs'
\* coordinates; the order among radars at equal distance is not fixed.
C8_SortedPermutation ==
    (IsBaricentre /\ Returned)
        => /\ Len(ret.rids) >= 2
           /\ IsPermutationOf(Ranking, ret.rids)
           /\ NonDecreasingDistance
           /\ MeanIsBarycentre

\* C8 witness: three radars whose nearest is not the first of the input, two
\* of them at equal distance and returned against their input order.
C8_Witness ==
    /\ IsBaricentre /\ Returned
    /\ Len(ret.rids) = 3
    /\ Ranking[1] # ret.rids[1]
    /\ DistOf(Ranking[1]) < DistOf(Ranking[2])
    /\ ~TiesKeepInputOrder

-----------------------------------------------------------------------------
(* Properties of set_regions.                                              *)

IsSetRegions == ret.op = "set_regions"
RegionsListing(n) == {i \in 1..Len(regions) : \E j \in 1..Len(regions[i][2]) : regions[i][2][j] = n}
ListedRids == {n \in Radars : RegionsListing(n) # {}}
LastListing(n) == CHOOSE i \in RegionsListing(n) : \A j \in RegionsListing(n) : j <= i

\* C10: loading a table in which a radar is a member of more than one region
\* does not fail; a warning is issued for that radar, every listed radar has
\* one entry in the map and it is the last region, in table order, that
\* lists it.
C10_LastRegionWins ==
    (IsSetRegions /\ regions # <<>>)
        => /\ Returned
           /\ DOMAIN rid_regions = ListedRids
           /\ \A n \in ListedRids : rid_regions[n] = regions[LastListing(n)][1]
           /\ \A n \in ListedRids :
                 Cardinality(RegionsListing(n)) > 1 => n \in Range(warned)

\* C10 witness: radar 1 is listed by the first and by the second region; the
\* load returned, warned about radar 1 and maps it to the second region.
C10_Witness ==
    /\ IsSetRegions /\ Returned
    /\ Len(regions) = 2
    /\ RegionsListing(1) = {1, 2}
    /\ rid_regions[1] = regions[2][1]
    /\ 1 \in Range(warned)

-----------------------------------------------------------------------------
(* Properties of decode_message.                                           *)

IsDecode == ret.op = "decode_message"
KeyOrder == <<"who", "what", "where", "when", "uid">>
PresentKeys == {ret.message.items[i][1] : i \in 1..Len(ret.message.items)}
MissingAt == {i \in 1..Len(KeyOrder) : KeyOrder[i] \notin PresentKeys}
FirstMissing == KeyOrder[CHOOSE i \in MissingAt : \A j \in MissingAt : i <= j]

\* C5: a deserialized mapping lacking one or more of who, what, where, when,
\* uid is refused with the error naming the first missing key in that order;
\* with the five keys present the mapping is returned, every pair unchanged.
C5_FirstMissingKey ==
    (IsDecode /\ ret.message.pickle)
        => IF MissingAt # {}
           THEN /\ ret.out.kind = "raise"
                /\ ret.out.exc = "KeyError"
                /\ ret.out.about = FirstMissing
           ELSE /\ Returned
                /\ DOMAIN ret.out.value = PresentKeys
                /\ \A i \in 1..Len(ret.message.items) :
                      ret.out.value[ret.message.items[i][1]] = ret.message.items[i][2]

\* C5 witness: a message without "where" and without "uid" is refused with
\* the error naming "where".
C5_Witness ==
    /\ IsDecode /\ ret.message.pickle
    /\ PresentKeys = {"who", "what", "when", "extra"}
    /\ ret.out.kind = "raise" /\ ret.out.about = "where"

-----------------------------------------------------------------------------
(* Properties of dispatch_message.                                         *)

OpenCall == [call |-> "open_connection", data |-> <<>>]
WriteCall(m) == [call |-> "write", data |-> m]
CloseCall == [call |-> "close", data |-> <<>>]

\* C2, as stated: the call returns normally whatever the connection attempt
\* ends in; no exception reaches the caller.
C2_NeverRaises ==
    \A i \in 1..Len(tasks) : tasks[i].pc # "raised"

\* C9: towards an accepting listener the coroutine connects, writes the
\* message once, closes, and returns without any read; the peer is sent the
\* message's bytes in order and, once the transport is flushed, has exactly
\* the message.  When the connection is refused nothing is written.
C9_ConnectWriteClose ==
    \A i \in 1..Len(tasks) :
        /\ tasks[i].outcome = "accepted"
              => /\ tasks[i].calls = <<OpenCall, WriteCall(tasks[i].message), CloseCall>>
                 /\ tasks[i].pc = "returned"
                 /\ tasks[i].tr.sent \o tasks[i].tr.buf = tasks[i].message
                 /\ tasks[i].tr.closed => tasks[i].tr.sent = tasks[i].message
        /\ tasks[i].outcome = "refused"
              => /\ tasks[i].calls = <<OpenCall>>
                 /\ tasks[i].pc = "returned"
                 /\ tasks[i].tr.sent = <<>> /\ tasks[i].tr.buf = <<>>

\* C9 witness: a first dispatch was refused; a second, of the two-byte
\* message, was accepted, part of it buffered, and the peer now has it whole.
C9_Witness ==
    /\ Len(tasks) = 2
    /\ tasks[1].outcome = "refused" /\ tasks[1].pc = "returned"
    /\ tasks[2].outcome = "accepted" /\ tasks[2].pc = "returned"
    /\ tasks[2].message = <<1, 2>>
    /\ tasks[2].tr.closed /\ tasks[2].tr.sent = <<1, 2>>

=============================================================================
